---- MODULE Spec2Model ----
(***************************************************************************)
(* A model of refcycle's directed-graph engine: ObjectGraph construction   *)
(* and restriction (object_graph.py) and the IDirectedGraph algorithms     *)
(* descendants, ancestors and strongly_connected_components                *)
(* (i_directed_graph.py).                                                  *)
(*                                                                         *)
(* Vertices are the integers of Universe; an integer stands for the        *)
(* object's id(), the key every container uses.  A graph is the record of  *)
(* the five attributes ObjectGraph._raw stores.                            *)
(***************************************************************************)
EXTENDS Integers, Sequences, FiniteSets, TLC

\* Bounds of the model.
MaxVerts == 3
MaxSize == 6
MaxChainSize == 5
MaxSub == 3

Universe == 1..MaxVerts

VARIABLES g, pc, call, trav, scc, hist, ret
vars == <<g, pc, call, trav, scc, hist, ret>>

----------------------------------------------------------------------------
\* Sequence helpers.
Range(s) == {s[i] : i \in DOMAIN s}
Last(s) == s[Len(s)]
Front(s) == SubSeq(s, 1, Len(s) - 1)
NoDup(s) == \A i, j \in DOMAIN s : s[i] = s[j] => i = j
IsPrefix(s, t) == Len(s) <= Len(t) /\ s = SubSeq(t, 1, Len(s))
RECURSIVE Reversed(_)
Reversed(s) == IF s = <<>> THEN <<>> ELSE Append(Reversed(Tail(s)), Head(s))

----------------------------------------------------------------------------
\* The identity-keyed containers (element_transform_set.py,
\* key_transform_dict.py) and plain dicts.

\* d[k] = v
DictSet(d, k, v) == [x \in (DOMAIN d) \cup {k} |-> IF x = k THEN v ELSE d[x]]
\* d[k] raises KeyError unless k is a key of d
HasKey(d, k) == k \in DOMAIN d
\* ElementTransformSet.add: a second add of the same key keeps the first;
\* iteration is in insertion order
SetAdd(s, v) == IF v \in Range(s) THEN s ELSE Append(s, v)
\* v in ElementTransformSet
SetHas(s, v) == v \in Range(s)

----------------------------------------------------------------------------
\* ObjectGraph._raw
Raw(vertices, out_edges, in_edges, head, tail) ==
    [vertices |-> vertices, out_edges |-> out_edges, in_edges |-> in_edges,
     head |-> head, tail |-> tail]

\* What a call hands back: the graphs it returns, or the exception it raises.
Return(graphs) == [raised |-> "", graphs |-> graphs]
Raise(kind) == [raised |-> kind, graphs |-> <<>>]
NoReturn == [raised |-> "", graphs |-> <<>>]

\* The locals of _from_objects and complete_subgraph_on_vertices before
\* their first loop.
EmptyBuilder ==
    [vertices |-> <<>>, out_edges |-> <<>>, in_edges |-> <<>>,
     head |-> <<>>, tail |-> <<>>, edge_label |-> 0, raised |-> ""]

RECURSIVE SeedContainersList(_, _)
SeedContainersList(acc, objects) ==
    IF objects = <<>> THEN acc
    ELSE SeedContainersList(
            [acc EXCEPT !.vertices = Append(@, Head(objects)),
                        !.out_edges = DictSet(@, Head(objects), <<>>),
                        !.in_edges = DictSet(@, Head(objects), <<>>)],
            Tail(objects))

\* for obj in objects: vertices.add(obj); out_edges[obj] = []; in_edges[obj] = []
RECURSIVE SeedContainers(_, _)
SeedContainers(acc, objects) ==
    IF objects = <<>> THEN acc
    ELSE SeedContainers(
            [acc EXCEPT !.vertices = SetAdd(@, Head(objects)),
                        !.out_edges = DictSet(@, Head(objects), <<>>),
                        !.in_edges = DictSet(@, Head(objects), <<>>)],
            Tail(objects))

----------------------------------------------------------------------------
\* ObjectGraph._from_objects; referents[v] is gc.get_referents(v).

FromReferent(acc, referrer, referent) ==
    IF ~SetHas(acc.vertices, referent) THEN acc
    ELSE LET edge == acc.edge_label IN
         [acc EXCEPT !.edge_label = @ + 1,
                     !.tail = DictSet(@, edge, referrer),
                     !.head = DictSet(@, edge, referent),
                     !.out_edges[referrer] = Append(@, edge),
                     !.in_edges[referent] = Append(@, edge)]

RECURSIVE FromReferents(_, _, _)
FromReferents(acc, referrer, refs) ==
    IF refs = <<>> THEN acc
    ELSE FromReferents(FromReferent(acc, referrer, Head(refs)), referrer, Tail(refs))

RECURSIVE FromReferrers(_, _, _)
FromReferrers(acc, todo, referents) ==
    IF todo = <<>> THEN acc
    ELSE FromReferrers(FromReferents(acc, Head(todo), referents[Head(todo)]),
                       Tail(todo), referents)

FromObjects(objects, referents) ==
    LET seeded == SeedContainers(EmptyBuilder, objects)
        built == FromReferrers(seeded, seeded.vertices, referents)
    IN Raw(built.vertices, built.out_edges, built.in_edges, built.head, built.tail)

----------------------------------------------------------------------------
\* ObjectGraph.complete_subgraph_on_vertices

SubgraphEdgeSwapped(self, acc, referrer, edge) ==
    LET referent == self.head[edge] IN
    IF ~SetHas(acc.vertices, referent) THEN acc
    ELSE [acc EXCEPT !.tail = DictSet(@, edge, referent),
                     !.head = DictSet(@, edge, referrer),
                     !.out_edges[referrer] = Append(@, edge),
                     !.in_edges[referent] = Append(@, edge)]

\* The body of the inner loop, for one edge of self._out_edges[referrer].
SubgraphEdge(self, acc, referrer, edge) ==
    LET referent == self.head[edge] IN
    IF ~SetHas(acc.vertices, referent) THEN acc
    ELSE [acc EXCEPT !.tail = DictSet(@, edge, referrer),
                     !.head = DictSet(@, edge, referent),
                     !.out_edges[referrer] = Append(@, edge),
                     !.in_edges[referent] = Append(@, edge)]

RECURSIVE SubgraphEdgesBackwards(_, _, _, _)
SubgraphEdgesBackwards(self, acc, referrer, edges) ==
    IF edges = <<>> THEN acc
    ELSE SubgraphEdgesBackwards(self, SubgraphEdge(self, acc, referrer, Last(edges)),
                                referrer, Front(edges))

\* for edge in self._out_edges[referrer]
RECURSIVE SubgraphEdges(_, _, _, _)
SubgraphEdges(self, acc, referrer, edges) ==
    IF edges = <<>> THEN acc
    ELSE SubgraphEdges(self, SubgraphEdge(self, acc, referrer, Head(edges)),
                       referrer, Tail(edges))

RECURSIVE SubgraphVerticesLenient(_, _, _)
SubgraphVerticesLenient(self, acc, todo) ==
    IF todo = <<>> THEN acc
    ELSE IF ~HasKey(self.out_edges, Head(todo))
         THEN SubgraphVerticesLenient(self, acc, Tail(todo))
    ELSE SubgraphVerticesLenient(
            self, SubgraphEdges(self, acc, Head(todo), self.out_edges[Head(todo)]),
            Tail(todo))

\* for referrer in vertices; self._out_edges[referrer] raises for a referrer
\* that is no vertex of self.
RECURSIVE SubgraphVertices(_, _, _)
SubgraphVertices(self, acc, todo) ==
    IF todo = <<>> THEN acc
    ELSE IF ~HasKey(self.out_edges, Head(todo))
         THEN [acc EXCEPT !.raised = "KeyError"]
    ELSE SubgraphVertices(
            self, SubgraphEdges(self, acc, Head(todo), self.out_edges[Head(todo)]),
            Tail(todo))

complete_subgraph_on_vertices(self, objects) ==
    LET seeded == SeedContainers(EmptyBuilder, objects)
        built == SubgraphVertices(self, seeded, seeded.vertices)
    IN IF built.raised # "" THEN Raise(built.raised)
       ELSE Return(<<Raw(built.vertices, built.out_edges, built.in_edges,
                         built.head, built.tail)>>)

----------------------------------------------------------------------------
\* IDirectedGraph.children and IDirectedGraph.parents: the heads of the
\* vertex's out-edges and the tails of its in-edges, in edge order.
children(self, vertex) ==
    [i \in 1..Len(self.out_edges[vertex]) |-> self.head[self.out_edges[vertex][i]]]
parents(self, vertex) ==
    [i \in 1..Len(self.in_edges[vertex]) |-> self.tail[self.in_edges[vertex][i]]]

\* The locals of descendants and ancestors.
IdleTrav == [visited |-> {}, stack |-> <<>>, to_visit |-> <<>>, raised |-> ""]
StartTrav(start) == [IdleTrav EXCEPT !.to_visit = <<start>>]

\* for head in neighbours: if id(head) not in visited: to_visit.append(head)
Unvisited(neighbours, visited) ==
    SelectSeq(neighbours, LAMBDA head : head \notin visited)

DescendantsIterParents(self, t) ==
    LET vertex == Last(t.to_visit)
        popped == [t EXCEPT !.to_visit = Front(@),
                            !.stack = Append(@, vertex),
                            !.visited = @ \cup {vertex}]
    IN IF ~HasKey(self.in_edges, vertex) THEN [popped EXCEPT !.raised = "KeyError"]
       ELSE [popped EXCEPT
                !.to_visit = @ \o Unvisited(parents(self, vertex), popped.visited)]

DescendantsIterSkipMissing(self, t) ==
    LET vertex == Last(t.to_visit)
        popped == [t EXCEPT !.to_visit = Front(@),
                            !.stack = Append(@, vertex),
                            !.visited = @ \cup {vertex}]
    IN IF ~HasKey(self.out_edges, vertex) THEN [t EXCEPT !.to_visit = Front(@)]
       ELSE [popped EXCEPT
                !.to_visit = @ \o Unvisited(children(self, vertex), popped.visited)]

\* One pass of the while loop of descendants.
DescendantsIter(self, t) ==
    LET vertex == Last(t.to_visit)
        popped == [t EXCEPT !.to_visit = Front(@),
                            !.stack = Append(@, vertex),
                            !.visited = @ \cup {vertex}]
    IN IF ~HasKey(self.out_edges, vertex) THEN [popped EXCEPT !.raised = "KeyError"]
       ELSE [popped EXCEPT
                !.to_visit = @ \o Unvisited(children(self, vertex), popped.visited)]

AncestorsIterFirstOnly(self, t) ==
    LET vertex == Last(t.to_visit)
        popped == [t EXCEPT !.to_visit = Front(@),
                            !.stack = Append(@, vertex),
                            !.visited = @ \cup {vertex}]
        found == Unvisited(parents(self, vertex), popped.visited)
    IN IF ~HasKey(self.in_edges, vertex) THEN [popped EXCEPT !.raised = "KeyError"]
       ELSE [popped EXCEPT
                !.to_visit = @ \o (IF found = <<>> THEN <<>> ELSE <<Head(found)>>)]

\* One pass of the while loop of ancestors.
AncestorsIter(self, t) ==
    LET vertex == Last(t.to_visit)
        popped == [t EXCEPT !.to_visit = Front(@),
                            !.stack = Append(@, vertex),
                            !.visited = @ \cup {vertex}]
    IN IF ~HasKey(self.in_edges, vertex) THEN [popped EXCEPT !.raised = "KeyError"]
       ELSE [popped EXCEPT
                !.to_visit = @ \o Unvisited(parents(self, vertex), popped.visited)]

\* return self.complete_subgraph_on_vertices(stack), or the exception the
\* loop ended with.
TravResult(self, t) ==
    IF t.raised # "" THEN Raise(t.raised)
    ELSE complete_subgraph_on_vertices(self, t.stack)

RECURSIVE DescendantsLoop(_, _)
DescendantsLoop(self, t) ==
    IF t.raised # "" \/ t.to_visit = <<>> THEN t
    ELSE DescendantsLoop(self, DescendantsIter(self, t))

RECURSIVE AncestorsLoop(_, _)
AncestorsLoop(self, t) ==
    IF t.raised # "" \/ t.to_visit = <<>> THEN t
    ELSE AncestorsLoop(self, AncestorsIter(self, t))

descendants(self, start) == TravResult(self, DescendantsLoop(self, StartTrav(start)))
ancestors(self, start) == TravResult(self, AncestorsLoop(self, StartTrav(start)))

----------------------------------------------------------------------------
\* IDirectedGraph.strongly_connected_components

\* Its locals; next is the position of the for loop in self.vertices, and
\* to_do holds the frames (operation_type, v).
IdleScc ==
    [sccs |-> <<>>, identified |-> {}, stack |-> <<>>, index |-> <<>>,
     boundaries |-> <<>>, to_do |-> <<>>, next |-> 1]
Frame(op, v) == [op |-> op, v |-> v]
EdgeFrames(ws) == [i \in DOMAIN ws |-> Frame("EDGE", ws[i])]

\* while index[id_v] < boundaries[-1]: boundaries.pop()
RECURSIVE PopBoundaries(_, _)
PopBoundaries(boundaries, i) ==
    IF i < Last(boundaries) THEN PopBoundaries(Front(boundaries), i)
    ELSE boundaries

PopBoundariesOnce(boundaries, i) ==
    IF i < Last(boundaries) THEN Front(boundaries) ELSE boundaries

SccVisitUnreversed(self, s, v) ==
    [s EXCEPT !.index = DictSet(@, v, Len(s.stack)),
              !.stack = Append(@, v),
              !.boundaries = Append(@, Len(s.stack)),
              !.to_do = (@ \o <<Frame("POSTVISIT", v)>>)
                        \o EdgeFrames(children(self, v))]

\* operation_type == 'VISIT'
SccVisit(self, s, v) ==
    [s EXCEPT !.index = DictSet(@, v, Len(s.stack)),
              !.stack = Append(@, v),
              !.boundaries = Append(@, Len(s.stack)),
              !.to_do = (@ \o <<Frame("POSTVISIT", v)>>)
                        \o Reversed(EdgeFrames(children(self, v)))]

SccEdgeOnePop(s, v) ==
    IF ~HasKey(s.index, v) THEN [s EXCEPT !.to_do = Append(@, Frame("VISIT", v))]
    ELSE IF v \notin s.identified
         THEN [s EXCEPT !.boundaries = PopBoundariesOnce(@, s.index[v])]
    ELSE s

\* operation_type == 'EDGE'
SccEdge(s, v) ==
    IF ~HasKey(s.index, v) THEN [s EXCEPT !.to_do = Append(@, Frame("VISIT", v))]
    ELSE IF v \notin s.identified
         THEN [s EXCEPT !.boundaries = PopBoundaries(@, s.index[v])]
    ELSE s

SccPostvisitPrepend(s, v) ==
    IF Last(s.boundaries) = s.index[v]
    THEN LET found == SubSeq(s.stack, s.index[v] + 1, Len(s.stack)) IN
         [s EXCEPT !.boundaries = Front(@),
                   !.stack = SubSeq(@, 1, s.index[v]),
                   !.identified = @ \cup Range(found),
                   !.sccs = <<found>> \o @]
    ELSE s

\* operation_type == 'POSTVISIT'
SccPostvisit(s, v) ==
    IF Last(s.boundaries) = s.index[v]
    THEN LET found == SubSeq(s.stack, s.index[v] + 1, Len(s.stack)) IN
         [s EXCEPT !.boundaries = Front(@),
                   !.stack = SubSeq(@, 1, s.index[v]),
                   !.identified = @ \cup Range(found),
                   !.sccs = Append(@, found)]
    ELSE s

\* One pass of the while loop: to_do.pop() and the branch it selects.
SccFrame(self, s) ==
    LET top == Last(s.to_do)
        popped == [s EXCEPT !.to_do = Front(@)]
    IN CASE top.op = "VISIT" -> SccVisit(self, popped, top.v)
         [] top.op = "EDGE" -> SccEdge(popped, top.v)
         [] OTHER -> SccPostvisit(popped, top.v)

\* One pass of the for loop up to its while loop.
SccNextVertex(self, s) ==
    LET v == self.vertices[s.next] IN
    [s EXCEPT !.next = @ + 1,
              !.to_do = IF ~HasKey(s.index, v) THEN <<Frame("VISIT", v)>> ELSE <<>>]

SccRunning(self, s) == s.to_do # <<>> \/ s.next <= Len(self.vertices)

RECURSIVE SccLoop(_, _)
SccLoop(self, s) ==
    IF s.to_do # <<>> THEN SccLoop(self, SccFrame(self, s))
    ELSE IF s.next <= Len(self.vertices) THEN SccLoop(self, SccNextVertex(self, s))
    ELSE s

\* return map(self.complete_subgraph_on_vertices, sccs)
RECURSIVE MapSubgraph(_, _)
MapSubgraph(self, sccs) ==
    IF sccs = <<>> THEN Return(<<>>)
    ELSE LET first == complete_subgraph_on_vertices(self, Head(sccs))
             others == MapSubgraph(self, Tail(sccs))
         IN IF first.raised # "" THEN first
            ELSE IF others.raised # "" THEN others
            ELSE Return(first.graphs \o others.graphs)

strongly_connected_components(self) == MapSubgraph(self, SccLoop(self, IdleScc).sccs)

----------------------------------------------------------------------------
\* The inputs of construction: the seed objects 1..n and, for every object,
\* its referents in gc order, given as one list of <<referrer, referent>>
\* pairs grouped by referrer; n objects come with at most size - n
\* references.
RefLists(n, size) ==
    {r \in UNION {[1..k -> (1..n) \X Universe] : k \in 0..(size - n)} :
        \A i \in 1..(Len(r) - 1) : r[i][1] <= r[i + 1][1]}

RECURSIVE ReferentsOf(_, _)
ReferentsOf(r, v) ==
    IF r = <<>> THEN <<>>
    ELSE IF Head(r)[1] = v THEN <<Head(r)[2]>> \o ReferentsOf(Tail(r), v)
    ELSE ReferentsOf(Tail(r), v)

Objects(n) == [i \in 1..n |-> i]

IdleCall == [op |-> "", start |-> 0, objects |-> <<>>]

InitOfSize(size) ==
    /\ \E n \in 1..MaxVerts : \E r \in RefLists(n, size) :
          g = FromObjects(Objects(n), [v \in Universe |-> ReferentsOf(r, v)])
    /\ pc = "idle"
    /\ call = IdleCall
    /\ trav = IdleTrav
    /\ scc = IdleScc
    /\ hist = <<>>
    /\ ret = NoReturn

Init == InitOfSize(MaxSize)
\* The graphs that chains of derived queries start from.
InitChain == InitOfSize(MaxChainSize)

----------------------------------------------------------------------------
\* The caller's sequences of vertices handed to complete_subgraph_on_vertices.
SubLists == UNION {[1..k -> Universe] : k \in 0..MaxSub}

\* graph.complete_subgraph_on_vertices(objects)
Subgraph ==
    /\ pc = "idle"
    /\ \E objects \in SubLists :
          /\ call' = [IdleCall EXCEPT !.op = "subgraph", !.objects = objects]
          /\ ret' = complete_subgraph_on_vertices(g, objects)
    /\ pc' = "done"
    /\ UNCHANGED <<g, trav, scc, hist>>

\* The caller goes on with one of the graphs the call returned.
Adopt ==
    /\ pc = "done"
    /\ ret.raised = ""
    /\ \E i \in DOMAIN ret.graphs : g' = ret.graphs[i]
    /\ pc' = "idle"
    /\ call' = IdleCall
    /\ trav' = IdleTrav
    /\ scc' = IdleScc
    /\ hist' = <<>>
    /\ ret' = NoReturn

----------------------------------------------------------------------------
\* The derived queries as single calls, for callers that chain them.

\* A caller's selection of vertices of its own graph, each once, in any order.
OwnLists(self) ==
    {s \in UNION {[1..k -> Range(self.vertices)] : k \in 0..Len(self.vertices)} :
        NoDup(s)}

Restrict ==
    /\ pc = "idle"
    /\ \E objects \in OwnLists(g) :
          /\ call' = [IdleCall EXCEPT !.op = "subgraph", !.objects = objects]
          /\ ret' = complete_subgraph_on_vertices(g, objects)
    /\ pc' = "done"
    /\ UNCHANGED <<g, trav, scc, hist>>

Descendants ==
    /\ pc = "idle"
    /\ \E start \in Universe :
          /\ call' = [IdleCall EXCEPT !.op = "descendants", !.start = start]
          /\ ret' = descendants(g, start)
    /\ pc' = "done"
    /\ UNCHANGED <<g, trav, scc, hist>>

Ancestors ==
    /\ pc = "idle"
    /\ \E start \in Universe :
          /\ call' = [IdleCall EXCEPT !.op = "ancestors", !.start = start]
          /\ ret' = ancestors(g, start)
    /\ pc' = "done"
    /\ UNCHANGED <<g, trav, scc, hist>>

Components ==
    /\ pc = "idle"
    /\ call' = [IdleCall EXCEPT !.op = "scc"]
    /\ ret' = strongly_connected_components(g)
    /\ pc' = "done"
    /\ UNCHANGED <<g, trav, scc, hist>>

Next == Restrict \/ Descendants \/ Ancestors \/ Components \/ Adopt

Spec == InitChain /\ [][Next]_vars

----------------------------------------------------------------------------
\* complete_subgraph_on_vertices on any list of vertices.
NextSub == Subgraph

SpecSub == Init /\ [][NextSub]_vars

----------------------------------------------------------------------------
\* descendants and ancestors, one pass of the while loop at a time.

DescendantsCall ==
    /\ pc = "idle"
    /\ \E start \in Universe :
          /\ call' = [IdleCall EXCEPT !.op = "descendants", !.start = start]
          /\ trav' = StartTrav(start)
    /\ pc' = "loop"
    /\ UNCHANGED <<g, scc, hist, ret>>

AncestorsCall ==
    /\ pc = "idle"
    /\ \E start \in Universe :
          /\ call' = [IdleCall EXCEPT !.op = "ancestors", !.start = start]
          /\ trav' = StartTrav(start)
    /\ pc' = "loop"
    /\ UNCHANGED <<g, scc, hist, ret>>

DescendantsPass ==
    /\ pc = "loop"
    /\ call.op = "descendants"
    /\ trav.raised = ""
    /\ trav.to_visit # <<>>
    /\ trav' = DescendantsIter(g, trav)
    /\ UNCHANGED <<g, pc, call, scc, hist, ret>>

AncestorsPass ==
    /\ pc = "loop"
    /\ call.op = "ancestors"
    /\ trav.raised = ""
    /\ trav.to_visit # <<>>
    /\ trav' = AncestorsIter(g, trav)
    /\ UNCHANGED <<g, pc, call, scc, hist, ret>>

TravReturn ==
    /\ pc = "loop"
    /\ trav.raised # "" \/ trav.to_visit = <<>>
    /\ ret' = TravResult(g, trav)
    /\ pc' = "done"
    /\ UNCHANGED <<g, call, trav, scc, hist>>

NextTrav ==
    DescendantsCall \/ AncestorsCall \/ DescendantsPass \/ AncestorsPass \/ TravReturn

SpecTrav == Init /\ [][NextTrav]_vars

----------------------------------------------------------------------------
\* strongly_connected_components, one frame at a time; hist records the
\* vertices in the order their VISIT frames run.

SccCall ==
    /\ pc = "idle"
    /\ call' = [IdleCall EXCEPT !.op = "scc"]
    /\ scc' = IdleScc
    /\ pc' = "loop"
    /\ UNCHANGED <<g, trav, hist, ret>>

SccRoot ==
    /\ pc = "loop"
    /\ call.op = "scc"
    /\ scc.to_do = <<>>
    /\ scc.next <= Len(g.vertices)
    /\ scc' = SccNextVertex(g, scc)
    /\ UNCHANGED <<g, pc, call, trav, hist, ret>>

SccDoVisit ==
    /\ pc = "loop"
    /\ call.op = "scc"
    /\ scc.to_do # <<>>
    /\ Last(scc.to_do).op = "VISIT"
    /\ scc' = SccFrame(g, scc)
    /\ hist' = Append(hist, Last(scc.to_do).v)
    /\ UNCHANGED <<g, pc, call, trav, ret>>

SccDoEdge ==
    /\ pc = "loop"
    /\ call.op = "scc"
    /\ scc.to_do # <<>>
    /\ Last(scc.to_do).op = "EDGE"
    /\ scc' = SccFrame(g, scc)
    /\ UNCHANGED <<g, pc, call, trav, hist, ret>>

SccDoPostvisit ==
    /\ pc = "loop"
    /\ call.op = "scc"
    /\ scc.to_do # <<>>
    /\ Last(scc.to_do).op = "POSTVISIT"
    /\ scc' = SccFrame(g, scc)
    /\ UNCHANGED <<g, pc, call, trav, hist, ret>>

SccReturn ==
    /\ pc = "loop"
    /\ call.op = "scc"
    /\ ~SccRunning(g, scc)
    /\ ret' = MapSubgraph(g, scc.sccs)
    /\ pc' = "done"
    /\ UNCHANGED <<g, call, trav, scc, hist>>

NextScc ==
    SccCall \/ SccRoot \/ SccDoVisit \/ SccDoEdge \/ SccDoPostvisit \/ SccReturn

SpecScc == Init /\ [][NextScc]_vars

----------------------------------------------------------------------------
\* Notions the properties are stated in.

\* The vertices reachable from those of seen by zero or more children steps.
RECURSIVE Closure(_, _)
Closure(self, seen) ==
    LET more == seen \cup UNION {Range(children(self, v)) : v \in seen}
    IN IF more = seen THEN seen ELSE Closure(self, more)
ReachableFrom(self, v) == Closure(self, {v})

VertexSet(self) == Range(self.vertices)
\* ObjectGraph._edges as a set
EdgeSet(self) == UNION {Range(self.out_edges[v]) : v \in DOMAIN self.out_edges}
\* The graph with every edge turned round.
Reverse(self) ==
    Raw(self.vertices, self.in_edges, self.out_edges, self.tail, self.head)

Done(op) == pc = "done" /\ call.op = op
StartKnown == SetHas(g.vertices, call.start)

----------------------------------------------------------------------------
\* C1: descendants(start), for a start that is a vertex of the graph,
\* returns one graph whose vertex set is exactly the set of vertices
\* reachable from start by zero or more children steps.
C1_ClosureCorrect ==
    (Done("descendants") /\ StartKnown) =>
        /\ ret.raised = ""
        /\ Len(ret.graphs) = 1
        /\ VertexSet(ret.graphs[1]) = ReachableFrom(g, call.start)

\* A finished descendants call that found a vertex beyond start and left
\* an unreachable vertex out.
C1_Witness ==
    /\ Done("descendants") /\ StartKnown /\ ret.raised = ""
    /\ Cardinality(VertexSet(ret.graphs[1])) >= 2
    /\ VertexSet(ret.graphs[1]) # VertexSet(g)

----------------------------------------------------------------------------
\* Two vertices lie in a common one of the graphs cs.
Together(cs, u, v) ==
    \E i \in DOMAIN cs : u \in VertexSet(cs[i]) /\ v \in VertexSet(cs[i])

\* C2: strongly_connected_components() returns non-empty components whose
\* vertex sets partition the graph's vertices, and two vertices are in the
\* same component exactly when each is reachable from the other.
C2_SccPartition ==
    Done("scc") =>
        /\ ret.raised = ""
        /\ \A i \in DOMAIN ret.graphs :
              /\ ret.graphs[i].vertices # <<>>
              /\ NoDup(ret.graphs[i].vertices)
              /\ VertexSet(ret.graphs[i]) \subseteq VertexSet(g)
        /\ \A v \in VertexSet(g) :
              Cardinality({i \in DOMAIN ret.graphs : v \in VertexSet(ret.graphs[i])}) = 1
        /\ \A u, v \in VertexSet(g) :
              Together(ret.graphs, u, v) <=>
                  (v \in ReachableFrom(g, u) /\ u \in ReachableFrom(g, v))

\* A finished decomposition with a component of several vertices beside
\* another component.
C2_Witness ==
    /\ Done("scc") /\ ret.raised = ""
    /\ Len(ret.graphs) >= 2
    /\ \E i \in DOMAIN ret.graphs : Len(ret.graphs[i].vertices) >= 2

----------------------------------------------------------------------------
SubgraphOfOwn == Done("subgraph") /\ Range(call.objects) \subseteq VertexSet(g)

\* C3: for a list S of vertices of G, complete_subgraph_on_vertices(S)
\* returns a graph H with vertex set exactly S whose edges are exactly the
\* edges of G with tail and head in S, each once, with G's tail and head.
C3_SubgraphFidelity ==
    SubgraphOfOwn =>
        /\ ret.raised = ""
        /\ Len(ret.graphs) = 1
        /\ LET h == ret.graphs[1]
               S == Range(call.objects)
           IN /\ VertexSet(h) = S
              /\ NoDup(h.vertices)
              /\ DOMAIN h.out_edges = S /\ DOMAIN h.in_edges = S
              /\ DOMAIN h.head = EdgeSet(h) /\ DOMAIN h.tail = EdgeSet(h)
              /\ \A e \in EdgeSet(h) :
                    /\ h.tail[e] \in S /\ h.head[e] \in S
                    /\ e \in DOMAIN g.tail /\ e \in DOMAIN g.head
                    /\ h.tail[e] = g.tail[e] /\ h.head[e] = g.head[e]
              /\ EdgeSet(h) = {e \in DOMAIN g.head : g.tail[e] \in S /\ g.head[e] \in S}
              /\ \A v \in S :
                    /\ NoDup(h.out_edges[v]) /\ NoDup(h.in_edges[v])
                    /\ Range(h.out_edges[v]) = {e \in EdgeSet(h) : h.tail[e] = v}
                    /\ Range(h.in_edges[v]) = {e \in EdgeSet(h) : h.head[e] = v}

\* A restriction to part of the graph that keeps an edge and drops another.
C3_Witness ==
    /\ SubgraphOfOwn /\ ret.raised = ""
    /\ EdgeSet(ret.graphs[1]) # {}
    /\ EdgeSet(ret.graphs[1]) # EdgeSet(g)
    /\ \E e \in EdgeSet(ret.graphs[1]) : g.tail[e] # g.head[e]

----------------------------------------------------------------------------
Absent(objects) == Range(objects) \ VertexSet(g)
SubgraphWithAbsent == Done("subgraph") /\ Absent(call.objects) # {}

----------------------------------------------------------------------------
\* C5: descendants(start) and ancestors(start) with a start that is no
\* vertex of the graph end in a raised lookup failure and return no graph.
C5_UnknownStartRaises ==
    ((Done("descendants") \/ Done("ancestors")) /\ ~StartKnown) =>
        (ret.raised # "" /\ ret.graphs = <<>>)

\* An ancestors call on a graph with edges, for a start outside it, that
\* has ended.
C5_Witness ==
    /\ Done("ancestors") /\ ~StartKnown
    /\ EdgeSet(g) # {}
    /\ ret.raised = "KeyError"

----------------------------------------------------------------------------
\* C6: for a start that is a vertex of G, descendants(start) on G has the
\* vertex set of ancestors(start) on the edge-reversed graph of G, and
\* ancestors(start) on G is exactly the set of vertices from which start is
\* reachable.
C6_Symmetry ==
    /\ (Done("descendants") /\ StartKnown) =>
          LET back == ancestors(Reverse(g), call.start)
          IN /\ ret.raised = "" /\ back.raised = ""
             /\ VertexSet(back.graphs[1]) = VertexSet(ret.graphs[1])
    /\ (Done("ancestors") /\ StartKnown) =>
          /\ ret.raised = ""
          /\ VertexSet(ret.graphs[1]) =
                {v \in VertexSet(g) : call.start \in ReachableFrom(g, v)}

\* A finished descendants call on a graph where turning the edges round
\* matters: start has descendants that are not its ancestors.
C6_Witness ==
    /\ Done("descendants") /\ StartKnown /\ ret.raised = ""
    /\ Cardinality(VertexSet(ret.graphs[1])) >= 2
    /\ VertexSet(ret.graphs[1]) # VertexSet(ancestors(g, call.start).graphs[1])

----------------------------------------------------------------------------
\* The concatenation of f[v] over the vertices of vs, in order.
RECURSIVE Flatten(_, _)
Flatten(f, vs) == IF vs = <<>> THEN <<>> ELSE f[Head(vs)] \o Flatten(f, Tail(vs))

\* What parent order leaves of out_edges(v) and in_edges(v) within S.
KeptOut(v, S) == SelectSeq(g.out_edges[v], LAMBDA e : g.head[e] \in S)
KeptIn(v, S) == SelectSeq(g.in_edges[v], LAMBDA e : g.tail[e] \in S)
IsSubsequence(s, t) ==
    \A i, j \in DOMAIN s :
        i < j => \E a, b \in DOMAIN t : a < b /\ t[a] = s[i] /\ t[b] = s[j]

\* C7 as stated: the result keeps the parent's edge ids, and for every v in
\* S its out_edges(v) and its in_edges(v) are the parent's, restricted to
\* S, in the parent's order, whatever the order of S.
C7_BothOrdersKept ==
    SubgraphOfOwn =>
        /\ ret.raised = ""
        /\ \A v \in Range(call.objects) :
              /\ ret.graphs[1].out_edges[v] = KeptOut(v, Range(call.objects))
              /\ ret.graphs[1].in_edges[v] = KeptIn(v, Range(call.objects))

\* C7, amended: the result keeps the parent's edge ids, and for every v in
\* S its out_edges(v) is the parent's, restricted to S, in the parent's
\* order, whatever the order of S.  Its in_edges(v) holds the edges of the
\* parent's in_edges(v) with tail in S, each once, ordered by the place of
\* the tail in S and then by the tail's out_edges; that is the parent's
\* order when S lists its vertices in the order of the parent's vertices.
C7_OutOrderKept ==
    SubgraphOfOwn =>
        /\ ret.raised = ""
        /\ LET h == ret.graphs[1]
               S == Range(call.objects)
           IN \A v \in S :
                /\ h.out_edges[v] = KeptOut(v, S)
                /\ Range(h.in_edges[v]) = Range(KeptIn(v, S))
                /\ Len(h.in_edges[v]) = Len(KeptIn(v, S))
                /\ h.in_edges[v] =
                      SelectSeq(Flatten(h.out_edges, h.vertices),
                                LAMBDA e : g.head[e] = v)
                /\ IsSubsequence(h.vertices, g.vertices) =>
                      h.in_edges[v] = KeptIn(v, S)

\* A restriction, listed against the parent's order, that keeps two
\* out-edges of one vertex and two in-edges of one vertex.
C7_Witness ==
    /\ SubgraphOfOwn /\ ret.raised = ""
    /\ ~IsSubsequence(ret.graphs[1].vertices, g.vertices)
    /\ \E v \in Range(call.objects) : Len(ret.graphs[1].out_edges[v]) >= 2
    /\ \E v \in Range(call.objects) :
          /\ Len(ret.graphs[1].in_edges[v]) >= 2
          /\ ret.graphs[1].in_edges[v] # KeptIn(v, Range(call.objects))

----------------------------------------------------------------------------
\* The invariants of the data model.
WellFormed(self) ==
    /\ DOMAIN self.out_edges = VertexSet(self)
    /\ DOMAIN self.in_edges = VertexSet(self)
    /\ \A v \in VertexSet(self) : \A e \in Range(self.out_edges[v]) :
          /\ e \in DOMAIN self.tail /\ self.tail[e] = v
          /\ e \in DOMAIN self.head /\ self.head[e] \in VertexSet(self)
    /\ NoDup(self.vertices)

\* C8: the graph built from the seed objects, every graph a chain of
\* complete_subgraph_on_vertices, descendants, ancestors and
\* strongly_connected_components calls derives from it, and every graph
\* such a call returns, satisfies the invariants of the data model.
C8_WellFormed ==
    /\ WellFormed(g)
    /\ \A i \in DOMAIN ret.graphs : WellFormed(ret.graphs[i])

\* A decomposition into several components of a graph that is itself
\* derived (it lacks the parent's first edge) and has an edge.
C8_Witness ==
    /\ Done("scc") /\ ret.raised = ""
    /\ EdgeSet(g) # {} /\ 0 \notin EdgeSet(g)
    /\ Len(ret.graphs) >= 2

----------------------------------------------------------------------------
Traversing == pc \in {"loop", "done"} /\ call.op \in {"descendants", "ancestors"}

\* C9: during descendants(start) and ancestors(start) no vertex is on the
\* frontier to_visit twice, and none is popped and appended to the list of
\* visited vertices (stack) twice.
C9_VisitedOnce ==
    Traversing => (NoDup(trav.to_visit) /\ NoDup(trav.stack))

----------------------------------------------------------------------------
\* The recursive path-based search of Gabow: roots in vertices order,
\* children in children(v) order; order lists the vertices as discovered.
GabowStart ==
    [sccs |-> <<>>, identified |-> {}, stack |-> <<>>, index |-> <<>>,
     boundaries |-> <<>>, order |-> <<>>]

RECURSIVE GabowVisit(_, _, _)
RECURSIVE GabowEdges(_, _, _)
GabowVisit(self, s, v) ==
    LET entered == [s EXCEPT !.index = DictSet(@, v, Len(s.stack)),
                             !.stack = Append(@, v),
                             !.boundaries = Append(@, Len(s.stack)),
                             !.order = Append(@, v)]
        after == GabowEdges(self, entered, children(self, v))
    IN IF Last(after.boundaries) = after.index[v]
       THEN LET found == SubSeq(after.stack, after.index[v] + 1, Len(after.stack)) IN
            [after EXCEPT !.boundaries = Front(@),
                          !.stack = SubSeq(@, 1, after.index[v]),
                          !.identified = @ \cup Range(found),
                          !.sccs = Append(@, found)]
       ELSE after
GabowEdges(self, s, ws) ==
    IF ws = <<>> THEN s
    ELSE LET w == Head(ws)
             next == IF w \notin DOMAIN s.index THEN GabowVisit(self, s, w)
                     ELSE IF w \notin s.identified
                          THEN [s EXCEPT !.boundaries = PopBoundaries(@, s.index[w])]
                     ELSE s
         IN GabowEdges(self, next, Tail(ws))

RECURSIVE GabowRoots(_, _, _)
GabowRoots(self, s, vs) ==
    IF vs = <<>> THEN s
    ELSE GabowRoots(self,
                    IF Head(vs) \notin DOMAIN s.index THEN GabowVisit(self, s, Head(vs))
                    ELSE s,
                    Tail(vs))
Gabow(self) == GabowRoots(self, GabowStart, self.vertices)

\* C10: the work-list implementation follows the recursive search: at every
\* step the vertices it has discovered and the components it has output are
\* an initial part of the recursive search's, with the same index values,
\* and at the end both have discovered the same vertices in the same order
\* and output the same components in the same order, each in the same
\* vertex order.
C10_FollowsRecursive ==
    (pc \in {"loop", "done"} /\ call.op = "scc") =>
        LET ref == Gabow(g) IN
        /\ IsPrefix(hist, ref.order)
        /\ IsPrefix(scc.sccs, ref.sccs)
        /\ \A v \in DOMAIN scc.index : scc.index[v] = ref.index[v]
        /\ pc = "done" =>
              /\ hist = ref.order
              /\ scc.sccs = ref.sccs
              /\ DOMAIN scc.index = DOMAIN ref.index
              /\ ret = MapSubgraph(g, ref.sccs)

\* A finished decomposition of a graph in which a vertex has two children
\* other than itself, so that the order of the EDGE frames matters.
C10_Witness ==
    /\ Done("scc") /\ Len(hist) >= 3 /\ Len(scc.sccs) >= 2
    /\ \E v \in VertexSet(g) :
          Cardinality(Range(children(g, v)) \ {v}) >= 2

----------------------------------------------------------------------------
\* The place in the sequence cs of the graph that holds vertex v.
PlaceOf(cs, v) == CHOOSE i \in DOMAIN cs : v \in VertexSet(cs[i])

\* C11: the sequence strongly_connected_components() returns is in reverse
\* topological order of the condensation: for every edge u -> v of the
\* graph whose ends lie in different components, the component of v comes
\* before the component of u.  While the search runs, the components found
\* so far are already closed this way: every edge that leaves a vertex of
\* one of them ends in that component or in an earlier one.
C11_ReverseTopological ==
    /\ (pc \in {"loop", "done"} /\ call.op = "scc") =>
          \A i \in DOMAIN scc.sccs : \A u \in Range(scc.sccs[i]) :
              \A w \in Range(children(g, u)) :
                  \E j \in 1..i : w \in Range(scc.sccs[j])
    /\ Done("scc") =>
          /\ ret.raised = ""
          /\ Len(ret.graphs) = Len(scc.sccs)
          /\ \A e \in EdgeSet(g) :
                LET u == g.tail[e]
                    v == g.head[e]
                IN PlaceOf(ret.graphs, u) # PlaceOf(ret.graphs, v) =>
                      PlaceOf(ret.graphs, v) < PlaceOf(ret.graphs, u)

\* A finished decomposition into three components joined by edges, the
\* first vertex of the graph being in the last of them.
C11_Witness ==
    /\ Done("scc") /\ ret.raised = ""
    /\ Len(ret.graphs) >= 3
    /\ Cardinality({e \in EdgeSet(g) :
          PlaceOf(ret.graphs, g.tail[e]) # PlaceOf(ret.graphs, g.head[e])}) >= 2
    /\ PlaceOf(ret.graphs, g.vertices[1]) = Len(ret.graphs)
====
